---------------------------- MODULE Spec2Model ----------------------------
(***************************************************************************)
(* Model of the share price tracker (src/stock_dashboardv1.4.py): the      *)
(* watchlist / portfolio store kept in st.session_state, the two-level     *)
(* st.cache_data quote cache, the derived watchlist / portfolio tables     *)
(* and the auto_refresh trigger.                                           *)
(*                                                                         *)
(* Text is a sequence of one-character strings, so that strip() and        *)
(* upper() are computed.  Prices and quantities are integers; a percentage *)
(* is the exact fraction [num, den] of the float expression that the code  *)
(* evaluates.                                                             *)
(***************************************************************************)
EXTENDS Integers, Sequences, FiniteSets, TLC

VARIABLES
    watchlist,        \* st.session_state.watchlist
    portfolio,        \* st.session_state.portfolio
    msg,              \* the st.success / st.warning / st.info text of the run
    symbol_cache,     \* st.cache_data store of fetch_price_for_symbol
    list_cache,       \* st.cache_data store of fetch_prices_for_list
    prices_map,       \* prices_map of the last script run
    returned_age,     \* history: age of each returned quote when it was returned
    since_invoke,     \* history: time since the last run that called the source
    invoke_gap,       \* history: distance of the last two source-calling runs
    ref_map,          \* history: prices_map of the same run had nothing raised
    faulted,          \* history: symbols whose lookup raised in the last run
    watch_rows,       \* rows of the watchlist tab
    portfolio_rows,   \* rows of the portfolio tab
    totals,           \* summary of the portfolio tab
    pc,               \* position of the script run
    elapsed,          \* time.time() - last_refresh_time, saturated
    refresh_interval, \* the "Auto-refresh (seconds)" slider
    pass_faulted,     \* whether the pass in progress met a fetch fault
    run_error,        \* whether the script run ended in an uncaught exception
    symbols_to_fetch, \* symbols_to_fetch of the last script run
    source_reply,     \* what the Price Source holds for the symbol looked up
    quote             \* what fetch_price_for_symbol returned for it

vars == <<watchlist, portfolio, msg, symbol_cache, list_cache, prices_map,
          returned_age, since_invoke, invoke_gap, ref_map, faulted,
          watch_rows, portfolio_rows, totals, pc, elapsed, refresh_interval,
          pass_faulted, run_error, symbols_to_fetch, source_reply, quote>>

storeVars   == <<watchlist, portfolio, msg>>
cacheVars   == <<symbol_cache, list_cache, symbols_to_fetch, returned_age,
                 since_invoke, invoke_gap, ref_map, faulted>>
fetchVars   == <<source_reply, quote>>
deriveVars  == <<watch_rows, portfolio_rows, totals>>
mapVars     == <<prices_map, run_error>>
refreshVars == <<pc, elapsed, refresh_interval, pass_faulted>>

\* Python's None is the empty tuple and a value x that is there is <<x>>
None == <<>>
Some(x) == <<x>>
Val(o) == o[1]

-----------------------------------------------------------------------------
(* Bounds of the model *)

\* longest text typed into a text_input
MaxLen == 2
\* most lots the portfolio is filled with
MaxLots == 2
\* seconds that pass in one step of the clock
TickSeconds == 10

Chars == {" ", "a", "A"}
Quantities == {0, 1, 2}
BuyPrices == {0, 1}

RawInputs == UNION {[1..n -> Chars] : n \in 0..MaxLen}

-----------------------------------------------------------------------------
(* str.strip(), str.upper(), list membership and list.remove *)

RECURSIVE LStrip(_)
LStrip(s) ==
    IF s # <<>> /\ Head(s) = " " THEN LStrip(Tail(s)) ELSE s

RECURSIVE RStrip(_)
RStrip(s) ==
    IF s # <<>> /\ s[Len(s)] = " " THEN RStrip(SubSeq(s, 1, Len(s) - 1)) ELSE s

Strip(s) == RStrip(LStrip(s))

UpperChar(c) == IF c = "a" THEN "A" ELSE c

Upper(s) == [i \in DOMAIN s |-> UpperChar(s[i])]

InList(x, list) == \E i \in DOMAIN list : list[i] = x

\* list.remove(x): drops the first occurrence of x
RECURSIVE ListRemove(_, _)
ListRemove(list, x) ==
    IF list = <<>> THEN <<>>
    ELSE IF Head(list) = x THEN Tail(list)
    ELSE <<Head(list)>> \o ListRemove(Tail(list), x)

\* sym = new_symbol.strip().upper()
Normalize(text) == Upper(Strip(text))

-----------------------------------------------------------------------------
(* Sidebar handlers *)

NoMsg == ""

\* line 85 without its membership test
CanAddSymbolNoMembership(sym, wl) == sym # <<>>

\* line 85: "if sym and sym not in st.session_state.watchlist"
CanAddSymbol(sym, wl) == sym # <<>> /\ ~InList(sym, wl)

AddToWatchlist(new_symbol) ==
    LET sym == Normalize(new_symbol) IN
    /\ IF CanAddSymbol(sym, watchlist)
          THEN /\ watchlist' = Append(watchlist, sym)
               /\ msg' = "Added"
          ELSE IF sym = <<>>
          THEN /\ watchlist' = watchlist
               /\ msg' = "Enter a symbol first"
          ELSE /\ watchlist' = watchlist
               /\ msg' = "already exists"
    /\ UNCHANGED <<portfolio, cacheVars, mapVars, deriveVars, refreshVars,
                   fetchVars>>

\* the options of the selectbox: [""] + watchlist
RemoveOptions(wl) == {<<>>} \cup {wl[i] : i \in DOMAIN wl}

RemoveSelected(remove_sym) ==
    /\ watchlist # <<>>
    /\ IF InList(remove_sym, watchlist)
          THEN /\ watchlist' = ListRemove(watchlist, remove_sym)
               /\ msg' = "Removed"
          ELSE /\ watchlist' = watchlist
               /\ msg' = NoMsg
    /\ UNCHANGED <<portfolio, cacheVars, mapVars, deriveVars, refreshVars,
                   fetchVars>>

\* line 110 with ">=" for ">"
ValidLotZeroAllowed(sym, p_qty) == sym # <<>> /\ p_qty >= 0

\* line 110: "if sym and p_qty > 0"
ValidLot(sym, p_qty) == sym # <<>> /\ p_qty > 0

AddToPortfolio(p_sym, p_qty, p_buy) ==
    LET sym == Normalize(p_sym) IN
    /\ IF ValidLot(sym, p_qty)
          THEN /\ Len(portfolio) < MaxLots
               /\ portfolio' = Append(portfolio,
                      [Symbol |-> sym, Quantity |-> p_qty, BuyPrice |-> p_buy])
               /\ msg' = "Added"
          ELSE /\ portfolio' = portfolio
               /\ msg' = "Enter valid symbol & quantity"
    /\ UNCHANGED <<watchlist, cacheVars, mapVars, deriveVars, refreshVars,
                   fetchVars>>

-----------------------------------------------------------------------------
(* The Price Source and fetch_price_for_symbol (lines 42-62) *)

AAPL == <<"A", "A", "P", "L">>
XYZ == <<"X", "Y", "Z">>
Tickers == {AAPL, XYZ}

\* a field holding a text that float() cannot convert (no number is a pair)
Malformed == <<0, 0>>

\* What yfinance holds for one symbol: the four fields of Ticker.info that
\* the code reads, the Close column of history(period="2d"), and whether
\* reading info or history raises.
Replies ==
    [info_raises : BOOLEAN,
     currentPrice : {None, Some(0), Some(150), Malformed},
     regularMarketPrice : {None, Some(151)},
     previousClose : {None, Some(0), Some(140)},
     regularMarketPreviousClose : {None, Some(141)},
     history_raises : BOOLEAN,
     Close : {<<>>, <<100>>, <<100, 101>>, <<99, 100, 101>>}]

\* Python "a or b": a unless it is falsy (None, 0)
PyOr(a, b) == IF a # None /\ a # Some(0) THEN a ELSE b

\* what a function call ends in: a returned value or an exception
Returns(v) == [raises |-> FALSE, value |-> v]
Raises == [raises |-> TRUE, value |-> <<None, None>>]

\* lines 48-49
LiveCurrent(reply) == PyOr(reply.currentPrice, reply.regularMarketPrice)
LivePrev(reply) == PyOr(reply.previousClose, reply.regularMarketPreviousClose)

\* line 51: the live pair is not fully present
NeedsHistory(reply) == LiveCurrent(reply) = None \/ LivePrev(reply) = None

\* lines 57-60: float() raises on a text that is no number
FloatPair(current, prev) ==
    IF current = Malformed \/ prev = Malformed THEN Raises
    ELSE Returns(<<current, prev>>)

\* lines 45-60: the body of the try
TryBody(reply) ==
    IF reply.info_raises THEN Raises
    ELSE IF NeedsHistory(reply)
    THEN IF reply.history_raises THEN Raises
         ELSE LET n == Len(reply.Close) IN
              IF n >= 2
              THEN FloatPair(Some(reply.Close[n]), Some(reply.Close[n - 1]))
              ELSE FloatPair(LiveCurrent(reply), LivePrev(reply))
    ELSE FloatPair(LiveCurrent(reply), LivePrev(reply))

\* lines 44-62 without the except clause
fetch_price_for_symbol_uncaught(reply) == TryBody(reply)

\* lines 44-62: the try with its "except Exception: return (None, None)"
fetch_price_for_symbol(reply) ==
    IF TryBody(reply).raises THEN Returns(<<None, None>>) ELSE TryBody(reply)

\* one lookup of the Price Source, outside the cache
Lookup ==
    /\ quote = None
    /\ quote' = fetch_price_for_symbol(source_reply).value
    /\ run_error' = fetch_price_for_symbol(source_reply).raises
    /\ UNCHANGED <<source_reply, prices_map, storeVars, cacheVars, deriveVars,
                   refreshVars>>

\* the Price Source is asked about the next symbol
NextSymbol ==
    /\ quote # None
    /\ quote' = None
    /\ source_reply' \in Replies
    /\ run_error' = FALSE
    /\ UNCHANGED <<prices_map, storeVars, cacheVars, deriveVars, refreshVars>>

-----------------------------------------------------------------------------
(* The quote cache: st.cache_data(ttl=30) on both fetch functions *)

\* line 41: ttl of fetch_price_for_symbol's cache
ttl_symbol == 30
\* line 64: ttl of fetch_prices_for_list's cache
ttl_list == 30

\* a dict is a function on its keys
EmptyMap == [k \in {} |-> None]
Put(map, key, v) ==
    [k \in DOMAIN map \cup {key} |-> IF k = key THEN v ELSE map[k]]

Range(list) == {list[i] : i \in DOMAIN list}

\* list(dict.fromkeys(list)): the first occurrence of each element, in order
RECURSIVE Dedup(_)
Dedup(list) ==
    IF list = <<>> THEN <<>>
    ELSE LET front == Dedup(SubSeq(list, 1, Len(list) - 1))
             last == list[Len(list)]
         IN  IF InList(last, front) THEN front ELSE Append(front, last)

\* lines 124-126, held being [p["Symbol"] for p in portfolio]
SymbolsToFetch(wl, held) == Dedup(wl \o held)

\* an entry is served while it is younger than the ttl
CacheFresh(cache, key, ttl) == key \in DOMAIN cache /\ cache[key].age < ttl

\* line 41 with a cache that does not keep (None, None)
SymbolCachedUnlessNone(s) ==
    /\ CacheFresh(symbol_cache, s, ttl_symbol)
    /\ symbol_cache[s].value # <<None, None>>

\* line 41: fetch_price_for_symbol(s) is served from its cache
SymbolCached(s) == CacheFresh(symbol_cache, s, ttl_symbol)

\* line 64: fetch_prices_for_list(symbols) is served from its cache
ListCached(symbols) == CacheFresh(list_cache, symbols, ttl_list)

\* the answers of the Price Source the cache is exercised with: a live pair,
\* and a live price with no previous close and one close of history
SourceAnswers ==
    {r \in Replies :
        /\ r.regularMarketPrice = None
        /\ r.regularMarketPreviousClose = None
        /\ r.currentPrice = Some(150)
        /\ r.previousClose \in {None, Some(140)}
        /\ r.Close = <<100>>
        /\ ~r.info_raises
        /\ ~r.history_raises}

\* the same answers with a lookup that raises: reading info, reading history
FaultyAnswers ==
    {[r EXCEPT !.info_raises = TRUE] :
        r \in {x \in SourceAnswers : x.previousClose # None}}
    \cup {[r EXCEPT !.history_raises = TRUE] :
        r \in {x \in SourceAnswers : x.currentPrice # None /\ x.previousClose = None}}

\* the answer had nothing raised
NoFault(reply) ==
    [reply EXCEPT !.info_raises = FALSE, !.history_raises = FALSE]

\* the symbols fetch_prices_for_list calls the Price Source for: the list is
\* not served from the list cache nor the symbol from the symbol cache
Misses(symbols) ==
    IF symbols = <<>> \/ ListCached(symbols) THEN {}
    ELSE {s \in Range(symbols) : ~SymbolCached(s)}

\* line 66, for one symbol: fetch_price_for_symbol behind its cache
CachedFetch(s, replies) ==
    IF SymbolCached(s)
    THEN Returns(symbol_cache[s].value)
    ELSE fetch_price_for_symbol(replies[s])

\* line 66: the dict comprehension; an exception of a lookup leaves it
fetch_prices_for_list(symbols, replies) ==
    IF \E s \in Range(symbols) : CachedFetch(s, replies).raises
    THEN [raises |-> TRUE, value |-> EmptyMap]
    ELSE Returns([s \in Range(symbols) |-> CachedFetch(s, replies).value])

\* line 128: fetch_prices_for_list behind its cache, or {} for no symbols
PricesMap(symbols, replies) ==
    IF symbols = <<>> THEN Returns(EmptyMap)
    ELSE IF ListCached(symbols)
    THEN Returns(list_cache[symbols].value)
    ELSE fetch_prices_for_list(symbols, replies)

\* lines 124-128 of one script run: actual is what the Price Source answers
RunPass(symbols, actual) ==
    LET hit == symbols # <<>> /\ ListCached(symbols)
        misses == Misses(symbols)
        result == PricesMap(symbols, actual)
        stored == {s \in misses : ~fetch_price_for_symbol(actual[s]).raises}
        ages == [s \in Range(symbols) |->
                    IF s \in misses THEN 0 ELSE symbol_cache[s].age]
    IN  /\ symbols_to_fetch' = symbols
        /\ prices_map' = result.value
        /\ run_error' = result.raises
        /\ symbol_cache' =
              [s \in DOMAIN symbol_cache \cup stored |->
                  IF s \in stored
                  THEN [age |-> 0,
                        value |-> fetch_price_for_symbol(actual[s]).value]
                  ELSE symbol_cache[s]]
        /\ list_cache' =
              IF symbols = <<>> \/ hit \/ result.raises THEN list_cache
              ELSE Put(list_cache, symbols,
                       [age |-> 0, value |-> result.value, quote_age |-> ages])
        /\ returned_age' =
              IF symbols = <<>> \/ result.raises THEN EmptyMap
              ELSE IF hit
              THEN [s \in Range(symbols) |->
                       list_cache[symbols].quote_age[s] + list_cache[symbols].age]
              ELSE ages
        /\ since_invoke' =
              [s \in Tickers |-> IF s \in misses THEN Some(0) ELSE since_invoke[s]]
        /\ invoke_gap' =
              [s \in Tickers |-> IF s \in misses THEN since_invoke[s] ELSE None]
        /\ faulted' = {s \in misses : TryBody(actual[s]).raises}
        /\ ref_map' = PricesMap(symbols, [s \in Tickers |-> NoFault(actual[s])]).value
        /\ UNCHANGED <<storeVars, deriveVars, refreshVars, fetchVars>>

\* since_invoke counts up to the ttl; later it is None again
Older(age) == IF age = None THEN None
              ELSE IF Val(age) + TickSeconds >= ttl_symbol THEN None
              ELSE Some(Val(age) + TickSeconds)

\* the cache a time later: an entry past its ttl is never served again
Aged(cache, ttl) ==
    [k \in {x \in DOMAIN cache : cache[x].age + TickSeconds < ttl} |->
        [cache[k] EXCEPT !.age = cache[k].age + TickSeconds]]

\* TickSeconds of wall-clock time pass after a script run.  The run is over:
\* its locals (symbols_to_fetch, prices_map) are gone, the caches stay.
Tick ==
    /\ symbol_cache' = Aged(symbol_cache, ttl_symbol)
    /\ list_cache' = Aged(list_cache, ttl_list)
    /\ since_invoke' = [s \in Tickers |-> Older(since_invoke[s])]
    /\ symbols_to_fetch' = <<>>
    /\ prices_map' = EmptyMap
    /\ run_error' = FALSE
    /\ returned_age' = EmptyMap
    /\ invoke_gap' = [s \in Tickers |-> None]
    /\ ref_map' = EmptyMap
    /\ faulted' = {}
    /\ UNCHANGED <<storeVars, deriveVars, refreshVars, fetchVars>>

\* the watchlists the store can hold over the tickers
Watchlists == {wl \in UNION {[1..n -> Tickers] : n \in 0..Cardinality(Tickers)} :
                  Dedup(wl) = wl}
\* the symbols of the lots of a portfolio
HeldSymbols == UNION {[1..n -> Tickers] : n \in 0..MaxLots}

\* a script run: the symbols come from the session state of the moment
Requests == {SymbolsToFetch(wl, held) : wl \in Watchlists, held \in HeldSymbols}

\* the answer standing for a symbol the run does not ask the source about
Unasked == CHOOSE r \in SourceAnswers : r.previousClose # None

GetQuotes ==
    \E symbols \in Requests,
       actual \in [Tickers -> SourceAnswers \cup FaultyAnswers] :
       /\ \A s \in Tickers \ Misses(symbols) : actual[s] = Unasked
       /\ RunPass(symbols, actual)

-----------------------------------------------------------------------------
(* The derived tables: watchlist tab, portfolio tab and its summary *)

\* a float that need not be whole is the exact fraction num / den; a
\* division by zero raises ZeroDivisionError
Frac(n, d) == [num |-> n, den |-> d]
Whole(n) == Frac(n, 1)
DivRaises(f) == f.den = 0

\* round(x, 2), as the number of hundredths kept (ties to even); den > 0
Round2(f) ==
    IF f.den = 0 THEN 0
    ELSE LET n == f.num * 100
             q == n \div f.den
             r == n - q * f.den
         IN  IF 2 * r < f.den THEN q
             ELSE IF 2 * r > f.den THEN q + 1
             ELSE IF q % 2 = 0 THEN q ELSE q + 1

\* "None if v is None else round(v, 2)"
Rounded(o) == IF o = None THEN None ELSE Some(Round2(Val(o)))
WholeOf(o) == IF o = None THEN None ELSE Some(Whole(Val(o)))

\* prices_map.get(s, (None, None))
Get(pm, s) == IF s \in DOMAIN pm THEN pm[s] ELSE <<None, None>>

\* line 148
Change(current, prev) ==
    IF current = None \/ prev = None THEN None
    ELSE Some(Val(current) - Val(prev))

\* line 149
Pct(change, prev) ==
    IF change = None \/ prev = Some(0) THEN None
    ELSE Some(Frac(Val(change) * 100, Val(prev)))

\* lines 147-149: the values of one watchlist row before rounding
WatchValues(s, pm) ==
    LET current == Get(pm, s)[1]
        prev == Get(pm, s)[2]
        change == Change(current, prev)
    IN  [Symbol |-> s, current |-> current, prev |-> prev, change |-> change,
         pct |-> Pct(change, prev)]

\* lines 151-157
WatchRow(v) ==
    [Symbol |-> v.Symbol,
     CurrentPrice |-> Rounded(WholeOf(v.current)),
     PreviousClose |-> Rounded(WholeOf(v.prev)),
     Change |-> Rounded(WholeOf(v.change)),
     PctChange |-> Rounded(v.pct)]

\* line 196 with "if not current" for "current is None"
CurrentValueTruthy(current, qty) ==
    IF current = None \/ current = Some(0) THEN None
    ELSE Some(Val(current) * qty)

\* line 196
CurrentValue(current, qty) ==
    IF current = None THEN None ELSE Some(Val(current) * qty)

\* line 197
ProfitLoss(current_value, invested) ==
    IF current_value = None THEN None ELSE Some(Val(current_value) - invested)

\* line 198 without "or invested == 0"
PlPctUnguarded(pl, invested) ==
    IF pl = None THEN None ELSE Some(Frac(Val(pl) * 100, invested))

\* line 198
PlPct(pl, invested) ==
    IF pl = None \/ invested = 0 THEN None
    ELSE Some(Frac(Val(pl) * 100, invested))

\* lines 189-198: the values of one portfolio row before rounding
LotValues(h, pm) ==
    LET current == Get(pm, h.Symbol)[1]
        invested == h.BuyPrice * h.Quantity
        current_value == CurrentValue(current, h.Quantity)
        pl == ProfitLoss(current_value, invested)
    IN  [Symbol |-> h.Symbol, Quantity |-> h.Quantity, BuyPrice |-> h.BuyPrice,
         invested |-> invested, current |-> current,
         current_value |-> current_value, pl |-> pl,
         pl_pct |-> PlPct(pl, invested)]

\* lines 204-213
PortfolioRow(v) ==
    [Symbol |-> v.Symbol,
     Quantity |-> v.Quantity,
     BuyPrice |-> Round2(Whole(v.BuyPrice)),
     Invested |-> Round2(Whole(v.invested)),
     CurrentPrice |-> Rounded(WholeOf(v.current)),
     CurrentValue |-> Rounded(WholeOf(v.current_value)),
     PL |-> Rounded(WholeOf(v.pl)),
     PLPct |-> Rounded(v.pl_pct)]

\* lines 185, 200: total_invested over the lots
RECURSIVE TotalInvested(_)
TotalInvested(lots) ==
    IF lots = <<>> THEN 0
    ELSE TotalInvested(SubSeq(lots, 1, Len(lots) - 1))
         + lots[Len(lots)].BuyPrice * lots[Len(lots)].Quantity

\* lines 186, 201-202: total_current, "if current_value:" skipping None and 0
RECURSIVE TotalCurrent(_, _)
TotalCurrent(lots, pm) ==
    IF lots = <<>> THEN 0
    ELSE LET h == lots[Len(lots)]
             current_value == CurrentValue(Get(pm, h.Symbol)[1], h.Quantity)
         IN  TotalCurrent(SubSeq(lots, 1, Len(lots) - 1), pm)
             + (IF current_value # None /\ current_value # Some(0)
                THEN Val(current_value) ELSE 0)

\* line 238
TotalPlPct(total_pl, total_invested) ==
    IF total_invested # 0 THEN Frac(total_pl * 100, total_invested)
    ELSE Whole(0)

\* lines 185-202, 237-238
Summary(lots, pm) ==
    LET total_invested == TotalInvested(lots)
        total_current == TotalCurrent(lots, pm)
        total_pl == total_current - total_invested
    IN  [total_invested |-> total_invested, total_current |-> total_current,
         total_pl |-> total_pl,
         pl_pct |-> TotalPlPct(total_pl, total_invested)]

\* a division of the tabs raises
TabsRaise(wv, lv, sum) ==
    \/ \E i \in DOMAIN wv : wv[i].pct # None /\ DivRaises(Val(wv[i].pct))
    \/ \E i \in DOMAIN lv : lv[i].pl_pct # None /\ DivRaises(Val(lv[i].pl_pct))
    \/ lv # <<>> /\ DivRaises(sum.pl_pct)

\* lines 133-251: the tabs, from the session state and prices_map
Render ==
    LET wv == [i \in DOMAIN watchlist |-> WatchValues(watchlist[i], prices_map)]
        lv == [i \in DOMAIN portfolio |-> LotValues(portfolio[i], prices_map)]
        sum == Summary(portfolio, prices_map)
    IN  /\ pc = "render"
        /\ pc' = "auto_refresh"
        /\ run_error' = TabsRaise(wv, lv, sum)
        /\ watch_rows' = [i \in DOMAIN wv |-> WatchRow(wv[i])]
        /\ portfolio_rows' = [i \in DOMAIN lv |-> PortfolioRow(lv[i])]
        /\ totals' = IF portfolio = <<>> THEN None ELSE Some(sum)
        /\ UNCHANGED <<storeVars, cacheVars, prices_map, fetchVars, elapsed,
                       refresh_interval, pass_faulted>>

-----------------------------------------------------------------------------
(* The script run and auto_refresh (lines 21-27, 119, 256) *)

\* values of the "Auto-refresh (seconds)" slider (5 to 300 in steps of 5)
SliderValues == {5, 30, 60}

\* elapsed is counted up to here; every slider value lies below
ElapsedCap == 60 + TickSeconds

\* a widget event while no script runs: streamlit runs the script
UserEvent ==
    /\ pc = "idle"
    /\ pc' = "fetch"
    /\ refresh_interval' \in SliderValues
    /\ pass_faulted' = FALSE
    /\ UNCHANGED <<elapsed, storeVars, cacheVars, mapVars, deriveVars, fetchVars>>

\* lines 124-128: the quotes are fetched; a lookup that faults yields
\* (None, None) and the run goes on
Fetch ==
    /\ pc = "fetch"
    /\ pc' = "render"
    /\ pass_faulted' \in BOOLEAN
    /\ UNCHANGED <<elapsed, refresh_interval, storeVars, cacheVars, mapVars,
                   deriveVars, fetchVars>>

\* lines 21-27, called on line 256: the last statement of the script
auto_refresh(interval_seconds) ==
    IF elapsed > interval_seconds
    THEN /\ elapsed' = 0
         /\ pc' = "fetch"
    ELSE /\ elapsed' = elapsed
         /\ pc' = "idle"

AutoRefresh ==
    /\ pc = "auto_refresh"
    /\ auto_refresh(refresh_interval)
    /\ UNCHANGED <<refresh_interval, pass_faulted, storeVars, cacheVars, mapVars,
                   deriveVars, fetchVars>>

\* TickSeconds of wall-clock time pass, whether or not the script runs
ClockTick ==
    /\ elapsed < ElapsedCap
    /\ elapsed' = IF elapsed + TickSeconds > ElapsedCap THEN ElapsedCap
                  ELSE elapsed + TickSeconds
    /\ UNCHANGED <<pc, refresh_interval, pass_faulted, storeVars, cacheVars,
                   mapVars, deriveVars, fetchVars>>

-----------------------------------------------------------------------------
(* The state after construction: lines 32-36, empty caches, nothing run *)

InitStore ==
    /\ watchlist = <<>>
    /\ portfolio = <<>>
    /\ msg = NoMsg

InitCache ==
    /\ symbol_cache = EmptyMap
    /\ list_cache = EmptyMap
    /\ symbols_to_fetch = <<>>
    /\ returned_age = EmptyMap
    /\ since_invoke = [s \in Tickers |-> None]
    /\ invoke_gap = [s \in Tickers |-> None]
    /\ ref_map = EmptyMap
    /\ faulted = {}

InitMap ==
    /\ prices_map = EmptyMap
    /\ run_error = FALSE

InitDerive ==
    /\ watch_rows = <<>>
    /\ portfolio_rows = <<>>
    /\ totals = None

InitFetch ==
    /\ source_reply = None
    /\ quote = None

InitRefresh ==
    /\ pc = "idle"
    /\ elapsed = 0
    /\ refresh_interval = 30
    /\ pass_faulted = FALSE

-----------------------------------------------------------------------------
(* The store: the sidebar handlers on the session state *)

InitStoreSpec ==
    InitStore /\ InitCache /\ InitMap /\ InitDerive /\ InitRefresh /\ InitFetch

NextStore ==
    \/ \E new_symbol \in RawInputs : AddToWatchlist(new_symbol)
    \/ \E remove_sym \in RemoveOptions(watchlist) : RemoveSelected(remove_sym)
    \/ \E p_sym \in RawInputs, p_qty \in Quantities, p_buy \in BuyPrices :
          AddToPortfolio(p_sym, p_qty, p_buy)

SpecStore == InitStoreSpec /\ [][NextStore]_vars

(* The quote cache under script runs and the passing of time *)

InitCacheSpec ==
    InitStore /\ InitCache /\ InitMap /\ InitDerive /\ InitRefresh /\ InitFetch

NextCache == Tick \/ GetQuotes

SpecCache == InitCacheSpec /\ [][NextCache]_vars

(* fetch_price_for_symbol on every answer of the Price Source *)

InitFetchSpec ==
    /\ InitStore /\ InitCache /\ InitMap /\ InitDerive /\ InitRefresh
    /\ source_reply \in Replies
    /\ quote = None

NextFetch == Lookup \/ NextSymbol

SpecFetch == InitFetchSpec /\ [][NextFetch]_vars

(* The tabs on every session state and prices_map of the bounds *)

\* the quotes the tabs are rendered with: a price is absent, 0, 3 or 7
DerivePrices == {None, Some(0), Some(3), Some(7)}
DeriveQuotes == DerivePrices \X DerivePrices

Lots == [Symbol : Tickers, Quantity : Quantities \ {0}, BuyPrice : BuyPrices]
Portfolios == UNION {[1..n -> Lots] : n \in 0..MaxLots}
Held(lots) == [i \in DOMAIN lots |-> lots[i].Symbol]

InitDeriveSpec ==
    /\ InitCache /\ InitDerive /\ InitFetch
    /\ msg = NoMsg
    /\ watchlist \in Watchlists
    /\ portfolio \in Portfolios
    /\ prices_map \in [Range(SymbolsToFetch(watchlist, Held(portfolio))) -> DeriveQuotes]
    /\ run_error = FALSE
    /\ pc = "render"
    /\ elapsed = 0
    /\ refresh_interval = 30
    /\ pass_faulted = FALSE

NextDerive == Render

SpecDerive == InitDeriveSpec /\ [][NextDerive]_vars

(* The script runs of a session: the first run starts with no
   last_refresh_time, so that time.time() - 0 exceeds every interval *)

InitRefreshSpec ==
    /\ InitStore /\ InitCache /\ InitMap /\ InitDerive /\ InitFetch
    /\ pc = "fetch"
    /\ elapsed = ElapsedCap
    /\ refresh_interval = 30
    /\ pass_faulted = FALSE

NextRefresh == UserEvent \/ Fetch \/ Render \/ AutoRefresh \/ ClockTick

\* a script run goes on to its end and time passes; the user need not act
SpecRefresh ==
    /\ InitRefreshSpec /\ [][NextRefresh]_vars
    /\ WF_vars(Fetch) /\ WF_vars(Render) /\ WF_vars(AutoRefresh)
    /\ WF_vars(ClockTick)

-----------------------------------------------------------------------------
(* Properties *)

\* C1: no quote that a script run gets from the cache is older than the ttl:
\* every quote of prices_map was fetched from the Price Source at most
\* ttl seconds before the run.
C1_NoQuoteOlderThanTtl ==
    \A s \in DOMAIN returned_age : returned_age[s] <= ttl_symbol

\* C2: two runs that request a symbol less than ttl seconds apart call the
\* Price Source for it at most once in total: a run that calls it is not
\* preceded, by less than the ttl, by another run that called it.
C2_OneSourceCallPerTtl ==
    \A s \in Tickers :
        invoke_gap[s] # None => Val(invoke_gap[s]) >= ttl_symbol

\* a run serves a symbol whose lookup faulted less than the ttl before,
\* among other symbols, without calling the Price Source again
C2_Witness ==
    \E s \in DOMAIN prices_map :
        /\ prices_map[s] = <<None, None>>
        /\ since_invoke[s] # None /\ Val(since_invoke[s]) > 0
        /\ invoke_gap[s] = None
        /\ Len(symbols_to_fetch) = 2

\* C3: whatever lookups fault, the run completes with an entry for every
\* requested symbol; a faulting symbol maps to (None, None) and every other
\* symbol to the quote it gets when nothing faults.
C3_FaultsContained ==
    /\ ~run_error
    /\ DOMAIN prices_map = Range(symbols_to_fetch)
    /\ faulted \subseteq DOMAIN prices_map
    /\ \A s \in faulted : prices_map[s] = <<None, None>>
    /\ \A s \in DOMAIN prices_map \ faulted : prices_map[s] = ref_map[s]

\* a run in which one lookup faults and another symbol gets its quote
C3_Witness ==
    /\ faulted # {}
    /\ \E s \in DOMAIN prices_map \ faulted : prices_map[s] # <<None, None>>

\* C4: when the live pair is not fully present and history has fewer than
\* two closes, fetch_price_for_symbol returns (None, None).
C4_NoPartialQuote ==
    (/\ quote # None
     /\ NeedsHistory(source_reply)
     /\ Len(source_reply.Close) < 2)
        => quote = <<None, None>>

\* the lots of the portfolio without those of symbol s
Without(lots, s) == SelectSeq(lots, LAMBDA h : h.Symbol # s)

\* C5: the summary of the portfolio tab is that of the portfolio without the
\* lots of a held symbol whose quote fetch failed.
C5_TotalsUnaffectedByFailedSymbol ==
    (pc = "auto_refresh" /\ totals # None) =>
        \A s \in Range(Held(portfolio)) :
            prices_map[s] = <<None, None>> =>
                Val(totals) = Summary(Without(portfolio, s), prices_map)

\* C6: in the rows of both tabs, Change and % Change are absent when current
\* or previous is absent; Current Value is absent iff current is absent; P/L
\* is absent iff Current Value is; P/L % is absent when P/L is; Invested is
\* Buy Price * Quantity whatever the quote.
C6_AbsentPropagates ==
    pc = "auto_refresh" =>
        /\ \A i \in DOMAIN watch_rows :
              LET q == prices_map[watchlist[i]] IN
              (q[1] = None \/ q[2] = None) =>
                  watch_rows[i].Change = None /\ watch_rows[i].PctChange = None
        /\ \A i \in DOMAIN portfolio_rows :
              LET row == portfolio_rows[i]
                  h == portfolio[i]
              IN  /\ (row.CurrentValue = None) <=> (prices_map[h.Symbol][1] = None)
                  /\ (row.PL = None) <=> (row.CurrentValue = None)
                  /\ row.PL = None => row.PLPct = None
                  /\ row.Invested = h.BuyPrice * h.Quantity * 100
        /\ Len(watch_rows) = Len(watchlist)
        /\ Len(portfolio_rows) = Len(portfolio)

\* rows with a price of 0, with a missing previous close and with no price
C6_Witness ==
    /\ pc = "auto_refresh"
    /\ \E i \in DOMAIN watch_rows :
          watch_rows[i].CurrentPrice # None /\ watch_rows[i].PreviousClose = None
    /\ \E i \in DOMAIN portfolio_rows : portfolio_rows[i].CurrentPrice = Some(0)
    /\ \E i \in DOMAIN portfolio_rows : portfolio_rows[i].CurrentPrice = None

\* C7: a rejected add leaves watchlist and portfolio as they were; an
\* accepted addLot appends one lot and changes no other.
C7_RejectedAddChangesNothing ==
    [][/\ \A t \in RawInputs :
            (AddToWatchlist(t) /\ Strip(t) = <<>>) =>
                UNCHANGED <<watchlist, portfolio>>
       /\ \A t \in RawInputs, q \in Quantities, b \in BuyPrices :
            AddToPortfolio(t, q, b) =>
                IF Strip(t) = <<>> \/ q <= 0
                THEN UNCHANGED <<watchlist, portfolio>>
                ELSE /\ watchlist' = watchlist
                     /\ Len(portfolio') = Len(portfolio) + 1
                     /\ SubSeq(portfolio', 1, Len(portfolio)) = portfolio
                     /\ portfolio'[Len(portfolio')].Quantity = q
                     /\ portfolio'[Len(portfolio')].BuyPrice = b
                     /\ portfolio'[Len(portfolio')].Symbol # <<>>]_vars

\* an addLot was rejected while both lists held entries
C7_Witness ==
    /\ msg = "Enter valid symbol & quantity"
    /\ watchlist # <<>>
    /\ Len(portfolio) = 2

IndexOf(list, x) == CHOOSE i \in DOMAIN list : list[i] = x

\* no duplicate, no empty symbol, every entry trimmed and in upper case
WatchlistWellFormed ==
    /\ \A i \in DOMAIN watchlist :
          /\ watchlist[i] # <<>>
          /\ Strip(watchlist[i]) = watchlist[i]
          /\ Upper(watchlist[i]) = watchlist[i]
    /\ \A i, j \in DOMAIN watchlist : i # j => watchlist[i] # watchlist[j]

\* the entries that stay keep their order and a new entry comes last
OrderKept ==
    \A i, j \in DOMAIN watchlist' :
        (i < j /\ InList(watchlist'[j], watchlist)) =>
            /\ InList(watchlist'[i], watchlist)
            /\ IndexOf(watchlist, watchlist'[i]) < IndexOf(watchlist, watchlist'[j])

\* C8: the watchlist never holds a duplicate, an empty symbol or an entry
\* that is not trimmed upper case; entries stay in insertion order; adding a
\* present symbol and removing an absent one change nothing; a removed
\* symbol does not occur any more.
C8_WatchlistInvariant ==
    /\ []WatchlistWellFormed
    /\ [][/\ OrderKept
          /\ \A t \in RawInputs :
                (AddToWatchlist(t) /\ InList(Upper(Strip(t)), watchlist)) =>
                    watchlist' = watchlist
          /\ \A r \in RemoveOptions(watchlist) :
                RemoveSelected(r) =>
                    /\ ~InList(r, watchlist')
                    /\ ~InList(r, watchlist) => watchlist' = watchlist]_vars

\* a symbol was removed from a watchlist of two
C8_Witness ==
    /\ msg = "Removed"
    /\ Len(watchlist) = 1

\* C9: whenever no script runs and more than the interval has passed since
\* the last refresh, a new pass follows and runs to its end.
C9_RefreshContinues ==
    []((pc = "idle" /\ elapsed > refresh_interval) => <>(pc = "auto_refresh"))

\* C10: no percentage divides by zero: % Change is absent when previous is
\* 0 and round(change / previous * 100, 2) when both prices are there and
\* previous is not 0; P/L % is absent when invested is 0; the summary's
\* percentage is 0 when total invested is 0.
C10_NoDivisionByZero ==
    pc = "auto_refresh" =>
        /\ ~run_error
        /\ \A i \in DOMAIN watch_rows :
              LET q == prices_map[watchlist[i]] IN
              /\ q[2] = Some(0) => watch_rows[i].PctChange = None
              /\ (q[1] # None /\ q[2] # None /\ q[2] # Some(0)) =>
                    watch_rows[i].PctChange =
                        Some(Round2(Frac((Val(q[1]) - Val(q[2])) * 100, Val(q[2]))))
        /\ \A i \in DOMAIN portfolio_rows :
              portfolio[i].BuyPrice * portfolio[i].Quantity = 0 =>
                  portfolio_rows[i].PLPct = None
        /\ (totals # None /\ Val(totals).total_invested = 0) =>
              Val(totals).pl_pct = Whole(0)

\* a previous close of 0 in the watchlist and a lot bought at 0 with a price
C10_Witness ==
    /\ pc = "auto_refresh"
    /\ \E i \in DOMAIN watch_rows :
          watch_rows[i].PreviousClose = Some(0) /\ watch_rows[i].CurrentPrice # None
    /\ \E i \in DOMAIN portfolio_rows :
          portfolio_rows[i].Invested = 0 /\ portfolio_rows[i].CurrentValue # None
    /\ Val(totals).total_invested = 0

=============================================================================
